---------------------------- MODULE Spec2Model ----------------------------
(***************************************************************************)
(* A model of enumsheets.py: the batch renumbering of DXF drawing sheets.  *)
(*                                                                         *)
(* Texts (MTEXT contents, file names, directory names) are sequences of    *)
(* symbols.  Decimal digits and punctuation are single characters, so that *)
(* str(), int() and the format calls are real conversions; a fixed word    *)
(* that the program never takes apart ("TitleField", the marker, ".dxf")   *)
(* is one symbol.  The Cyrillic words of the default patterns are written  *)
(* in Latin letters: "Plan" for the first, "Razv" for the second, "g" for  *)
(* the small letter that starts an address.                                *)
(*                                                                         *)
(* Indexes into a title block's text elements are 0-based, as in the       *)
(* source; None is -1.                                                     *)
(***************************************************************************)
EXTENDS Integers, Sequences, FiniteSets, TLC

VARIABLES
    pc,           \* position of the script in __main__
    exit_status,  \* -1 while running, else the process's exit status
    stdout,       \* the messages printed that tell the outcome
    ini,          \* the configuration file given with -c
    conf,         \* the module-level conf dictionary
    argv,         \* args.dxf_file: the file names on the command line
    disk,         \* the input files: file name -> content
    fs_dirs,      \* the names that exist where the output directory goes
    clock,        \* days elapsed on the local clock since the run started
    dxf_files,    \* the arguments that end in .dxf
    i,            \* index of the running loop (0-based)
    our_sheets,   \* list of DrawingSheet
    other_files,  \* list of file names without a title block
    dirname,      \* __make_output_dir: the name being tried
    ext_cnt,      \* __make_output_dir: the iteration counter
    mkdir_calls,  \* number of os.mkdir calls made so far
    output_dir,   \* the created directory, '' (the empty text) if none
    out_files,    \* content of the output directory: base name -> content
    copied,       \* number of shutil.copy calls completed
    saved,        \* number of dwg.saveas calls completed
    sheet_num,    \* enumerate_sheets: running sheet number
    new_date,     \* enumerate_sheets: the date to write
    date_reads,   \* number of time.localtime() calls made
    scale,        \* enumerate_sheets: the scale text last computed
    ws,           \* the worksheet: <<row, column>> -> what was written
    row_idx,      \* save_to_excel_table: row counter
    row_offset,   \* save_to_excel_table: row offset
    col_offset    \* save_to_excel_table: column offset

vars == <<pc, exit_status, stdout, ini, conf, argv, disk, fs_dirs, clock,
          dxf_files, i, our_sheets, other_files, dirname, ext_cnt,
          mkdir_calls, output_dir, out_files, copied, saved, sheet_num,
          new_date, date_reads, scale, ws, row_idx, row_offset, col_offset>>

---------------------------------------------------------------------------
(* Texts and the conversions between numbers and texts                     *)

None == -1

Digits == <<"0", "1", "2", "3", "4", "5", "6", "7", "8", "9">>

DigitChars == {Digits[d] : d \in 1..10}

DigitVal(c) == (CHOOSE d \in 1..10 : Digits[d] = c) - 1

IsDigits(t) == \A k \in 1..Len(t) : t[k] \in DigitChars

\* str(n) of a Python int
RECURSIVE StrNat(_)
StrNat(n) ==
    IF n < 10 THEN <<Digits[n + 1]>>
    ELSE Append(StrNat(n \div 10), Digits[(n % 10) + 1])

Str(n) == IF n < 0 THEN <<"-">> \o StrNat(0 - n) ELSE StrNat(n)

\* "{:03d}".format(n) and the %m, %d of strftime: zero-padded to a width
RECURSIVE ZeroPad(_, _)
ZeroPad(t, width) == IF Len(t) >= width THEN t ELSE ZeroPad(<<"0">> \o t, width)

RECURSIVE IntOfDigits(_)
IntOfDigits(t) ==
    IF t = <<>> THEN 0
    ELSE 10 * IntOfDigits(SubSeq(t, 1, Len(t) - 1)) + DigitVal(t[Len(t)])

\* int(t) succeeds on an optional sign followed by digits
IntParses(t) ==
    \/ Len(t) >= 1 /\ IsDigits(t)
    \/ Len(t) >= 2 /\ t[1] \in {"-", "+"} /\ IsDigits(Tail(t))

IntValue(t) ==
    IF t[1] = "-" THEN 0 - IntOfDigits(Tail(t))
    ELSE IF t[1] = "+" THEN IntOfDigits(Tail(t))
    ELSE IntOfDigits(t)

\* try: int(t) except ValueError: 0
IntOrZero(t) == IF IntParses(t) THEN IntValue(t) ELSE 0

\* sub in t, for texts
Contains(t, sub) ==
    \E k \in 0..(Len(t) - Len(sub)) : SubSeq(t, k + 1, k + Len(sub)) = sub

---------------------------------------------------------------------------
(* The default configuration                                               *)

DEFAULT_TITLE_BLOCK_MARKER == <<"artidea.gallery">>

DEFAULT_OUTPUT_DIRNAME == <<"enumerated_sheets">>

\* ^(X|\d{1,3})$
DEFAULT_FLD_NUMBER_PATTERN(t) ==
    \/ t = <<"X">>
    \/ Len(t) \in 1..3 /\ IsDigits(t)

\* ^(XX|\d{1,3})$
DEFAULT_FLD_SHEETS_PATTERN(t) ==
    \/ t = <<"X", "X">>
    \/ Len(t) \in 1..3 /\ IsDigits(t)

\* ((^TitleField$)|(^(Plan|Razv)))
DEFAULT_FLD_TITLE_PATTERN(t) ==
    \/ t = <<"TitleField">>
    \/ Len(t) >= 1 /\ t[1] \in {"Plan", "Razv"}

\* ((^AddressField$)|(^g))
DEFAULT_FLD_ADDRESS_PATTERN(t) ==
    \/ t = <<"AddressField">>
    \/ Len(t) >= 1 /\ t[1] = "g"

\* ^(\d{4}-\d{2}-\d{2})$
DEFAULT_FLD_DATE_PATTERN(t) ==
    /\ Len(t) = 10
    /\ \A k \in 1..10 : IF k \in {5, 8} THEN t[k] = "-" ELSE t[k] \in DigitChars

\* ^(\d+:\d+)$
DEFAULT_FLD_SCALE_PATTERN(t) ==
    \E k \in 2..(Len(t) - 1) :
        /\ t[k] = ":"
        /\ IsDigits(SubSeq(t, 1, k - 1))
        /\ IsDigits(SubSeq(t, k + 1, Len(t)))

FieldNames == {"number", "sheets", "date", "scale", "title", "address"}

\* the default pattern of field name, searched in t
DefaultPattern(name, t) ==
    CASE name = "number"  -> DEFAULT_FLD_NUMBER_PATTERN(t)
      [] name = "sheets"  -> DEFAULT_FLD_SHEETS_PATTERN(t)
      [] name = "date"    -> DEFAULT_FLD_DATE_PATTERN(t)
      [] name = "scale"   -> DEFAULT_FLD_SCALE_PATTERN(t)
      [] name = "title"   -> DEFAULT_FLD_TITLE_PATTERN(t)
      [] name = "address" -> DEFAULT_FLD_ADDRESS_PATTERN(t)

\* the pattern . searched in t: some character of t is not a newline
PatternAny(t) == \E k \in 1..Len(t) : t[k] # "\n"

\* the patterns a configuration file of this model gives a field: none, which
\* leaves the default, or the pattern .
Patterns == {"default", "."}

\* conf['title_block']['fields'][name]['re'].search(t)
ReSearch(name, t) ==
    IF conf.patterns[name] = "." THEN PatternAny(t) ELSE DefaultPattern(name, t)

---------------------------------------------------------------------------
(* class DrawingSheet                                                      *)
(* A sheet is [filename, dwg, blk, tb_fields]: dwg is the parsed drawing,  *)
(* blk the place of the title block among dwg.blocks, and qres, the query  *)
(* result the sheet keeps, is that block's list of texts.                  *)

qres(sheet) == sheet.dwg.blocks[sheet.blk]

SeqMin(l) == CHOOSE m \in {l[k] : k \in 1..Len(l)} : \A k \in 1..Len(l) : m <= l[k]

SeqMax(l) == CHOOSE m \in {l[k] : k \in 1..Len(l)} : \A k \in 1..Len(l) : m >= l[k]

TbFieldFuncAllMin(name, l) == SeqMin(l)

\* tb_fields[name]['func'], applied to a non-empty list of indexes
TbFieldFunc(name, l) ==
    CASE name \in {"number", "address"} -> SeqMin(l)
      [] name \in {"sheets", "title"}   -> SeqMax(l)
      [] name \in {"date", "scale"}     -> l[1]

\* the loop of __find_matching_indexes, from index k on
RECURSIVE MatchingFrom(_, _, _)
MatchingFrom(texts, name, k) ==
    IF k >= Len(texts) THEN <<>>
    ELSE IF ReSearch(name, texts[k + 1])
         THEN <<k>> \o MatchingFrom(texts, name, k + 1)
         ELSE MatchingFrom(texts, name, k + 1)

find_matching_indexes(texts, name) == MatchingFrom(texts, name, 0)

find_fld_idx(texts, name) ==
    LET idx_list == find_matching_indexes(texts, name)
    IN  IF idx_list # <<>> THEN TbFieldFunc(name, idx_list) ELSE None

\* DrawingSheet(dwg, qres), with qres the texts of block blk of dwg
NewDrawingSheet(filename, dwg, blk) ==
    [filename  |-> filename,
     dwg       |-> dwg,
     blk       |-> blk,
     tb_fields |-> [name \in FieldNames |-> find_fld_idx(dwg.blocks[blk], name)]]

\* get_<name>()
Getter(sheet, name) ==
    LET idx == sheet.tb_fields[name]
    IN  IF idx = None THEN <<>> ELSE qres(sheet)[idx + 1]

\* set_<name>(value), value already a text
Setter(sheet, name, value) ==
    LET idx == sheet.tb_fields[name]
    IN  IF idx = None THEN sheet
        ELSE [sheet EXCEPT !.dwg.blocks[sheet.blk][idx + 1] = value]

SwapNeededLess(old_number, old_sheets) == old_number < old_sheets

\* the test of set_numbers that swaps the two indexes
SwapNeeded(old_number, old_sheets) == old_number > old_sheets

\* set_numbers(sheet_num, num_of_sheets)
set_numbers(sheet, num, num_of_sheets) ==
    LET old_number == IntOrZero(Getter(sheet, "number"))
        old_sheets == IntOrZero(Getter(sheet, "sheets"))
        swapped ==
            IF SwapNeeded(old_number, old_sheets)
            THEN [sheet EXCEPT !.tb_fields["sheets"] = sheet.tb_fields["number"],
                               !.tb_fields["number"] = sheet.tb_fields["sheets"]]
            ELSE sheet
    IN  Setter(Setter(swapped, "number", Str(num)), "sheets", Str(num_of_sheets))

---------------------------------------------------------------------------
(* DrawingSheet.get_dwg_scale                                              *)
(* A $PSVPSCALE header value is [kind, n, d]: absent, a value float()      *)
(* rejects ("junk"), or the number n/d with d > 0.  Arithmetic is exact;   *)
(* the values used are ones a float division gives the same rounding for.  *)

HdrAbsent == [kind |-> "absent", n |-> 0, d |-> 1]

HdrJunk == [kind |-> "junk", n |-> 0, d |-> 1]

HdrNum(n, d) == [kind |-> "num", n |-> n, d |-> d]

\* round(a/b) for b > 0: to the nearest integer, a tie to the even one
Round(a, b) ==
    LET q == a \div b
        r == a % b
    IN  IF 2 * r < b THEN q
        ELSE IF 2 * r > b THEN q + 1
        ELSE IF q % 2 = 0 THEN q ELSE q + 1

\* float(self.dwg.header.get('$PSVPSCALE', 1.0)), ValueError giving 1.0
Psvpscale(header) ==
    IF header.kind = "num" THEN header ELSE HdrNum(1, 1)

NoException == ""

\* get_dwg_scale(): the text, or the exception that leaves it
get_dwg_scale(sheet) ==
    LET v == Psvpscale(sheet.dwg.header)
    IN  IF v.n > v.d
        THEN [exc |-> NoException, text |-> Str(Round(v.n, v.d)) \o <<":", "1">>]
        ELSE IF v.n < v.d
        THEN IF v.n = 0
             THEN [exc |-> "ZeroDivisionError", text |-> <<>>]
             ELSE IF v.n > 0
             THEN [exc |-> NoException,
                   text |-> <<"1", ":">> \o Str(Round(v.d, v.n))]
             ELSE [exc |-> NoException,
                   text |-> <<"1", ":">> \o Str(Round(0 - v.d, 0 - v.n))]
        ELSE [exc |-> NoException, text |-> <<"1", ":", "1">>]

---------------------------------------------------------------------------
(* File names: os.path and the order of Python strings                     *)

\* the code point that decides the order of two symbols
CodePoint(c) ==
    CASE c = " "    -> 3200
      [] c = "-"    -> 4500
      [] c = "."    -> 4600
      [] c = ".dxf" -> 4601
      [] c = ".txt" -> 4602
      [] c = ".v2"  -> 4603
      [] c = "/"    -> 4700
      [] c \in DigitChars -> 4800 + 100 * DigitVal(c)
      [] c = "a"    -> 9700
      [] c = "b"    -> 9800
      [] c = "c"    -> 9900
      [] c = "s"    -> 11500
      [] OTHER      -> 12000

\* a < b for Python strings
RECURSIVE StrLess(_, _)
StrLess(a, b) ==
    IF b = <<>> THEN FALSE
    ELSE IF a = <<>> THEN TRUE
    ELSE IF a[1] = b[1] THEN StrLess(Tail(a), Tail(b))
    ELSE CodePoint(a[1]) < CodePoint(b[1])

DotSymbols == {".", ".dxf", ".txt", ".v2"}

LastIndexIn(t, S) ==
    LET at == {k \in 1..Len(t) : t[k] \in S}
    IN  IF at = {} THEN 0 ELSE CHOOSE k \in at : \A m \in at : m <= k

\* the place where os.path.splitext cuts t, Len(t) + 1 when it does not
SplitextAt(t) ==
    LET sepIndex == LastIndexIn(t, {"/"})
        dotIndex == LastIndexIn(t, DotSymbols)
    IN  IF dotIndex > sepIndex
           /\ \E k \in (sepIndex + 1)..(dotIndex - 1) : t[k] # "."
        THEN dotIndex
        ELSE Len(t) + 1

\* os.path.splitext(t)[0]
SplitextRoot(t) == SubSeq(t, 1, SplitextAt(t) - 1)

\* os.path.splitext(t)[1]
SplitextExt(t) == SubSeq(t, SplitextAt(t), Len(t))

\* os.path.basename(t)
Basename(t) == SubSeq(t, LastIndexIn(t, {"/"}) + 1, Len(t))

---------------------------------------------------------------------------
(* sheets.sort(key=lambda x: x.dwg.filename): a stable sort                *)

\* x put into the sorted list l behind every element whose key is not larger
RECURSIVE InsertSorted(_, _)
InsertSorted(l, x) ==
    IF l = <<>> THEN <<x>>
    ELSE IF StrLess(x.filename, l[1].filename) THEN <<x>> \o l
    ELSE <<l[1]>> \o InsertSorted(Tail(l), x)

RECURSIVE SortedPrefix(_, _)
SortedPrefix(l, n) ==
    IF n = 0 THEN <<>> ELSE InsertSorted(SortedPrefix(l, n - 1), l[n])

SortUnsorted(l) == l

SortByFilename(l) == SortedPrefix(l, Len(l))

---------------------------------------------------------------------------
(* Configuration                                                           *)

\* t.strip()
RECURSIVE LStrip(_)
LStrip(t) == IF t # <<>> /\ t[1] \in {" ", "\n"} THEN LStrip(Tail(t)) ELSE t

RECURSIVE RStrip(_)
RStrip(t) ==
    IF t # <<>> /\ t[Len(t)] \in {" ", "\n"}
    THEN RStrip(SubSeq(t, 1, Len(t) - 1))
    ELSE t

Strip(t) == LStrip(RStrip(t))

\* t.replace(old, new) for one-symbol old and new
Replace(t, old, new) == [k \in 1..Len(t) |-> IF t[k] = old THEN new ELSE t[k]]

\* the conf dictionary as the module sets it up
DefaultConf ==
    [dirname         |-> DEFAULT_OUTPUT_DIRNAME,
     marker          |-> DEFAULT_TITLE_BLOCK_MARKER,
     patterns        |-> [name \in FieldNames |-> "default"],
     update_date     |-> TRUE,
     update_scale    |-> TRUE,
     update_address  |-> TRUE,
     date_value      |-> <<>>,
     scale_value     |-> <<>>,
     address_value   |-> <<>>,
     excel_enable    |-> TRUE,
     excel_filename  |-> <<"contents", ".xlsx">>,
     specs_names     |-> <<>>]

\* parse_config: conf after reading the ini file (the marker is left at its
\* default in every ini file of this model)
parse_config(f) ==
    [dirname         |-> f.dirname,
     marker          |-> DEFAULT_TITLE_BLOCK_MARKER,
     patterns        |-> f.patterns,
     update_date     |-> f.update_date,
     update_scale    |-> f.update_scale,
     update_address  |-> f.update_address,
     date_value      |-> f.date_value,
     scale_value     |-> f.scale_value,
     address_value   |-> Replace(Strip(f.address_value), "\n", "\\P"),
     excel_enable    |-> f.excel_enable,
     excel_filename  |-> f.excel_filename,
     specs_names     |-> SelectSeq(f.specs_names, LAMBDA x : Strip(x) # <<>>)]

---------------------------------------------------------------------------
(* Recognition                                                             *)

\* find_our_title_block(dwg): the place of the first block one of whose
\* texts holds the marker, 0 for None
find_our_title_block(dwg) ==
    LET hit == {b \in 1..Len(dwg.blocks) :
                   \E k \in 1..Len(dwg.blocks[b]) :
                       Contains(dwg.blocks[b][k], conf.marker)}
    IN  IF hit = {} THEN 0 ELSE CHOOSE b \in hit : \A c \in hit : b <= c

---------------------------------------------------------------------------
(* __main__                                                                *)

MainOrderMkdirFirst ==
    <<"config", "filter", "mkdir", "recognize", "copy", "enumerate", "excel", "done">>

\* the order of the steps of the script
MainOrder ==
    <<"config", "filter", "recognize", "mkdir", "copy", "enumerate", "excel", "done">>

\* the step that follows step p
After(p) == MainOrder[(CHOOSE k \in 1..Len(MainOrder) : MainOrder[k] = p) + 1]

\* control passes to step p, whose loop starts at 0
Goto(p) == pc' = p /\ i' = 0

\* sys.exit(1) after printing msg; an uncaught exception prints a traceback
\* and ends the process the same way
Exit1(msg) ==
    /\ pc' = "exit"
    /\ exit_status' = 1
    /\ stdout' = Append(stdout, msg)
    /\ i' = i

Put(f, k, v) == [x \in (DOMAIN f) \cup {k} |-> IF x = k THEN v ELSE f[x]]

\* lines 567-572
LoadConfig ==
    /\ pc = "config"
    /\ IF ini.loadable
       THEN /\ conf' = parse_config(ini)
            /\ Goto(After("config"))
            /\ UNCHANGED <<exit_status, stdout>>
       ELSE /\ Exit1("config error")
            /\ UNCHANGED conf
    /\ UNCHANGED <<ini, argv, disk, fs_dirs, clock, dxf_files, our_sheets,
                   other_files, dirname, ext_cnt, mkdir_calls, output_dir,
                   out_files, copied, saved, sheet_num, new_date, date_reads,
                   scale, ws, row_idx, row_offset, col_offset>>

\* line 583
FilterArgs ==
    /\ pc = "filter"
    /\ dxf_files' = SelectSeq(argv, LAMBDA f : SplitextExt(f) = <<".dxf">>)
    /\ Goto(After("filter"))
    /\ UNCHANGED <<exit_status, stdout, ini, conf, argv, disk, fs_dirs, clock,
                   our_sheets, other_files, dirname, ext_cnt, mkdir_calls,
                   output_dir, out_files, copied, saved, sheet_num, new_date,
                   date_reads, scale, ws, row_idx, row_offset, col_offset>>

\* recognize_our_sheets: one turn of its loop
RecognizeFile ==
    /\ pc = "recognize"
    /\ i < Len(dxf_files)
    /\ LET f   == dxf_files[i + 1]
           dwg == disk[f]
           res == find_our_title_block(dwg)
       IN  IF dwg.kind # "dwg"
           THEN \* ezdxf.readfile raises and nothing catches it
                /\ Exit1("Traceback")
                /\ UNCHANGED <<our_sheets, other_files>>
           ELSE /\ IF res # 0
                   THEN /\ our_sheets' = Append(our_sheets, NewDrawingSheet(f, dwg, res))
                        /\ UNCHANGED other_files
                   ELSE /\ other_files' = Append(other_files, f)
                        /\ UNCHANGED our_sheets
                /\ i' = i + 1
                /\ UNCHANGED <<pc, exit_status, stdout>>
    /\ UNCHANGED <<ini, conf, argv, disk, fs_dirs, clock, dxf_files, dirname,
                   ext_cnt, mkdir_calls, output_dir, out_files, copied, saved,
                   sheet_num, new_date, date_reads, scale, ws, row_idx,
                   row_offset, col_offset>>

\* lines 587-589
RecognizeDone ==
    /\ pc = "recognize"
    /\ i = Len(dxf_files)
    /\ IF our_sheets = <<>> /\ other_files = <<>>
       THEN Exit1("No input files to process.")
       ELSE /\ Goto(After("recognize"))
            /\ UNCHANGED <<exit_status, stdout>>
    /\ UNCHANGED <<ini, conf, argv, disk, fs_dirs, clock, dxf_files, our_sheets,
                   other_files, dirname, ext_cnt, mkdir_calls, output_dir,
                   out_files, copied, saved, sheet_num, new_date, date_reads,
                   scale, ws, row_idx, row_offset, col_offset>>

---------------------------------------------------------------------------
(* __make_output_dir                                                       *)

\* line 229: the iteration counter at which the search gives up
MaxExtCnt == 1000

\* "{:s}.{:03d}".format(root, cnt)
FormatDirname(root, cnt) == root \o <<".">> \o ZeroPad(Str(cnt), 3)

\* line 235: the name tried after d, cnt being the counter already raised
NextDirname(d, cnt) == FormatDirname(SplitextRoot(d), cnt)

\* one call __make_output_dir(d, cnt), with what __main__ does with a
\* returned name (lines 591-595)
MakeOutputDir(d, cnt) ==
    /\ IF cnt >= MaxExtCnt
       THEN /\ output_dir' = <<>>
            /\ Exit1("Error: Cannot create output directory.")
            /\ UNCHANGED <<fs_dirs, mkdir_calls, dirname, ext_cnt>>
       ELSE /\ mkdir_calls' = mkdir_calls + 1
            /\ IF d \in fs_dirs
               THEN \* FileExistsError: the function calls itself
                    /\ ext_cnt' = cnt + 1
                    /\ dirname' = NextDirname(d, cnt + 1)
                    /\ pc' = "mkdir_retry"
                    /\ i' = i
                    /\ UNCHANGED <<fs_dirs, output_dir, exit_status, stdout>>
               ELSE /\ fs_dirs' = fs_dirs \cup {d}
                    /\ output_dir' = d
                    /\ dirname' = d
                    /\ ext_cnt' = cnt
                    /\ Goto(After("mkdir"))
                    /\ UNCHANGED <<exit_status, stdout>>
    /\ UNCHANGED <<ini, conf, argv, disk, clock, dxf_files, our_sheets,
                   other_files, out_files, copied, saved, sheet_num, new_date,
                   date_reads, scale, ws, row_idx, row_offset, col_offset>>

\* line 591: the call from __main__
MakeOutputDirCall == pc = "mkdir" /\ MakeOutputDir(conf.dirname, 0)

\* line 236: the call from __make_output_dir
MakeOutputDirRetry == pc = "mkdir_retry" /\ MakeOutputDir(dirname, ext_cnt)

---------------------------------------------------------------------------
(* Copy of the unrecognized files                                          *)

\* lines 599-602: one turn of the loop
CopyFile ==
    /\ pc = "copy"
    /\ i < Len(other_files)
    /\ LET f == other_files[i + 1]
       IN  out_files' = Put(out_files, Basename(f), disk[f])
    /\ copied' = copied + 1
    /\ i' = i + 1
    /\ UNCHANGED <<pc, exit_status, stdout, ini, conf, argv, disk, fs_dirs,
                   clock, dxf_files, our_sheets, other_files, dirname, ext_cnt,
                   mkdir_calls, output_dir, saved, sheet_num, new_date,
                   date_reads, scale, ws, row_idx, row_offset, col_offset>>

SheetsMissingNever(sheets) == FALSE

\* line 604: not our_sheets
SheetsMissing(sheets) == sheets = <<>>

\* lines 604-606
CopyDone ==
    /\ pc = "copy"
    /\ i = Len(other_files)
    /\ IF SheetsMissing(our_sheets)
       THEN Exit1("No sheets to process.")
       ELSE /\ Goto(After("copy"))
            /\ UNCHANGED <<exit_status, stdout>>
    /\ UNCHANGED <<ini, conf, argv, disk, fs_dirs, clock, dxf_files, our_sheets,
                   other_files, dirname, ext_cnt, mkdir_calls, output_dir,
                   out_files, copied, saved, sheet_num, new_date, date_reads,
                   scale, ws, row_idx, row_offset, col_offset>>

---------------------------------------------------------------------------
(* enumerate_sheets                                                        *)

\* time.localtime() when the clock shows `days` days after the start
LocalTime(days) == [tm_year |-> 2018, tm_mon |-> 11, tm_mday |-> 24 + days]

\* time.strftime('%Y-%m-%d', tm)
Strftime(tm) ==
    ZeroPad(Str(tm.tm_year), 4) \o <<"-">> \o ZeroPad(Str(tm.tm_mon), 2)
        \o <<"-">> \o ZeroPad(Str(tm.tm_mday), 2)

NoScale == [exc |-> NoException, text |-> <<>>]

\* lines 290-298
EnumerateSheets ==
    /\ pc = "enumerate"
    /\ our_sheets' = SortByFilename(our_sheets)
    /\ sheet_num' = 0
    /\ new_date' = conf.date_value
    /\ pc' = "enumerate_loop"
    /\ i' = 0
    /\ UNCHANGED <<exit_status, stdout, ini, conf, argv, disk, fs_dirs, clock,
                   dxf_files, other_files, dirname, ext_cnt, mkdir_calls,
                   output_dir, out_files, copied, saved, date_reads, scale, ws,
                   row_idx, row_offset, col_offset>>

DateIsReadEveryTime(date) == TRUE

\* line 307: whether the clock is read, date being new_date
DateIsRead(date) == date = <<>>

AddressIsWrittenAlways(update_address, new_address) == update_address

\* lines 316-317: whether set_address is called
AddressIsWritten(update_address, new_address) ==
    update_address /\ new_address # <<>>

\* lines 300-319: one turn of the loop
ProcessSheet ==
    /\ pc = "enumerate_loop"
    /\ i < Len(our_sheets)
    /\ LET x       == our_sheets[i + 1]
           x1      == set_numbers(x, sheet_num + 1, Len(our_sheets))
           reads   == conf.update_date /\ DateIsRead(new_date)
           date    == IF reads THEN Strftime(LocalTime(clock)) ELSE new_date
           x2      == IF conf.update_date THEN Setter(x1, "date", date) ELSE x1
           sc      == IF conf.scale_value # <<>>
                      THEN [exc |-> NoException, text |-> conf.scale_value]
                      ELSE get_dwg_scale(x2)
           x3      == IF conf.update_scale THEN Setter(x2, "scale", sc.text) ELSE x2
           x4      == IF AddressIsWritten(conf.update_address, conf.address_value)
                      THEN Setter(x3, "address", conf.address_value)
                      ELSE x3
       IN  /\ sheet_num' = sheet_num + 1
           /\ new_date' = date
           /\ date_reads' = IF reads THEN date_reads + 1 ELSE date_reads
           /\ scale' = IF conf.update_scale THEN sc ELSE scale
           /\ IF conf.update_scale /\ sc.exc # NoException
              THEN \* the exception leaves get_dwg_scale and nothing catches it
                   /\ our_sheets' = [our_sheets EXCEPT ![i + 1] = x2]
                   /\ Exit1("Traceback")
                   /\ UNCHANGED <<out_files, saved>>
              ELSE /\ our_sheets' = [our_sheets EXCEPT ![i + 1] = x4]
                   /\ out_files' = Put(out_files, Basename(x.filename), x4.dwg)
                   /\ saved' = saved + 1
                   /\ i' = i + 1
                   /\ UNCHANGED <<pc, exit_status, stdout>>
    /\ UNCHANGED <<ini, conf, argv, disk, fs_dirs, clock, dxf_files,
                   other_files, dirname, ext_cnt, mkdir_calls, output_dir,
                   copied, ws, row_idx, row_offset, col_offset>>

\* enumerate_sheets returns
EnumerateDone ==
    /\ pc = "enumerate_loop"
    /\ i = Len(our_sheets)
    /\ Goto(After("enumerate"))
    /\ UNCHANGED <<exit_status, stdout, ini, conf, argv, disk, fs_dirs, clock,
                   dxf_files, our_sheets, other_files, dirname, ext_cnt,
                   mkdir_calls, output_dir, out_files, copied, saved, sheet_num,
                   new_date, date_reads, scale, ws, row_idx, row_offset,
                   col_offset>>

---------------------------------------------------------------------------
(* save_to_excel_table                                                     *)

\* line 364
max_rows_per_page == 47

Cell(kind, sheet, value) == [kind |-> kind, sheet |-> sheet, value |-> value]

Xlsx == [kind |-> "xlsx", blocks |-> <<>>, header |-> HdrAbsent]

\* lines 334-368: up to the loop
SaveToExcelTable ==
    /\ pc = "excel"
    /\ IF ~conf.excel_enable \/ Strip(conf.excel_filename) = <<>>
       THEN /\ Goto(After("excel"))
            /\ UNCHANGED <<ws, row_idx, row_offset, col_offset>>
       ELSE /\ ws' = Put(Put(<<>>, <<2, 1>>, Cell("drawings_title", 0, <<>>)),
                         <<2, 2>>, Cell("merged", 0, <<>>))
            /\ row_idx' = 4
            /\ row_offset' = 0
            /\ col_offset' = 0
            /\ pc' = "excel_loop"
            /\ i' = 0
    /\ UNCHANGED <<exit_status, stdout, ini, conf, argv, disk, fs_dirs, clock,
                   dxf_files, our_sheets, other_files, dirname, ext_cnt,
                   mkdir_calls, output_dir, out_files, copied, saved, sheet_num,
                   new_date, date_reads, scale>>

\* line 378
ShiftedColOffset == 3

ShiftedRowOffsetOneLess == max_rows_per_page - 4

\* line 379
ShiftedRowOffset == max_rows_per_page - 3

\* lines 370-395: one turn of the loop
WriteSheetRow ==
    /\ pc = "excel_loop"
    /\ i < Len(our_sheets)
    /\ LET x          == our_sheets[i + 1]
           list_num   == Getter(x, "number")
           list_title == Replace(Getter(x, "title"), "\\P", " ")
           shift      == row_idx > max_rows_per_page
           co         == IF shift THEN ShiftedColOffset ELSE col_offset
           ro         == IF shift THEN ShiftedRowOffset ELSE row_offset
       IN  /\ ws' = Put(Put(ws, <<row_idx - ro, 1 + co>>,
                                Cell("number", i + 1, list_num)),
                        <<row_idx - ro, 2 + co>>, Cell("title", i + 1, list_title))
           /\ col_offset' = co
           /\ row_offset' = ro
    /\ row_idx' = row_idx + 1
    /\ i' = i + 1
    /\ UNCHANGED <<pc, exit_status, stdout, ini, conf, argv, disk, fs_dirs,
                   clock, dxf_files, our_sheets, other_files, dirname, ext_cnt,
                   mkdir_calls, output_dir, out_files, copied, saved, sheet_num,
                   new_date, date_reads, scale>>

\* the cells of the loop of lines 422-428, names written from row r on
RECURSIVE WriteNames(_, _, _, _)
WriteNames(sheet, names, r, col) ==
    IF names = <<>> THEN sheet
    ELSE WriteNames(Put(sheet, <<r, col>>, Cell("specs_name", 0, names[1])),
                    Tail(names), r + 1, col)

\* lines 401-405: row_idx for the title of the secondary list
SpecsTitleRow(r) == IF r <= max_rows_per_page THEN 2 ELSE r + 2

\* lines 397-430: the secondary list and wb.save
WriteSpecsAndSave ==
    /\ pc = "excel_loop"
    /\ i = Len(our_sheets)
    /\ IF conf.specs_names # <<>>
       THEN LET co == 3
                ri == SpecsTitleRow(row_idx)
                ro == IF row_idx <= max_rows_per_page THEN 0 ELSE row_offset
                t1 == Put(ws, <<ri - ro, 1 + co>>, Cell("specs_title", 0, <<>>))
                t2 == Put(t1, <<ri - ro, 2 + co>>, Cell("merged", 0, <<>>))
            IN  /\ ws' = WriteNames(t2, conf.specs_names, ri + 2 - ro, 2 + co)
                /\ col_offset' = co
                /\ row_offset' = ro
                /\ row_idx' = ri + 2 + Len(conf.specs_names)
       ELSE UNCHANGED <<ws, row_idx, row_offset, col_offset>>
    /\ out_files' = Put(out_files, conf.excel_filename, Xlsx)
    /\ Goto(After("excel"))
    /\ UNCHANGED <<exit_status, stdout, ini, conf, argv, disk, fs_dirs, clock,
                   dxf_files, our_sheets, other_files, dirname, ext_cnt,
                   mkdir_calls, output_dir, copied, saved, sheet_num, new_date,
                   date_reads, scale>>

---------------------------------------------------------------------------
(* The end of the script, and the clock                                    *)

\* line 614
Done ==
    /\ pc = "done"
    /\ stdout' = Append(stdout, "Done.")
    /\ exit_status' = 0
    /\ pc' = "exit"
    /\ UNCHANGED <<ini, conf, argv, disk, fs_dirs, clock, dxf_files, i,
                   our_sheets, other_files, dirname, ext_cnt, mkdir_calls,
                   output_dir, out_files, copied, saved, sheet_num, new_date,
                   date_reads, scale, ws, row_idx, row_offset, col_offset>>

\* days the local clock may advance while the sheets are processed
MaxTicks == 2

\* midnight passes between two sheets
Tick ==
    /\ pc = "enumerate_loop"
    /\ clock < MaxTicks
    /\ clock' = clock + 1
    /\ UNCHANGED <<pc, exit_status, stdout, ini, conf, argv, disk, fs_dirs,
                   dxf_files, i, our_sheets, other_files, dirname, ext_cnt,
                   mkdir_calls, output_dir, out_files, copied, saved, sheet_num,
                   new_date, date_reads, scale, ws, row_idx, row_offset,
                   col_offset>>

Next ==
    \/ LoadConfig
    \/ FilterArgs
    \/ RecognizeFile
    \/ RecognizeDone
    \/ MakeOutputDirCall
    \/ MakeOutputDirRetry
    \/ CopyFile
    \/ CopyDone
    \/ EnumerateSheets
    \/ ProcessSheet
    \/ EnumerateDone
    \/ SaveToExcelTable
    \/ WriteSheetRow
    \/ WriteSpecsAndSave
    \/ Done
    \/ Tick

---------------------------------------------------------------------------
(* The inputs of a run                                                     *)

TMarker == <<"artidea.gallery">>
TMarkerInside == <<"(c)", " ", "artidea.gallery", " ", "2", "0", "1", "8">>
TX == <<"X">>
TXX == <<"X", "X">>
TTitle == <<"TitleField">>
TPlan == <<"Plan", "\\P", "1">>
TAddress == <<"AddressField">>
TDate0 == <<"0", "0", "0", "0", "-", "0", "0", "-", "0", "0">>
TScale50 == <<"1", ":", "5", "0">>
TNote == <<"note">>

Dwg(blocks, header) == [kind |-> "dwg", blocks |-> blocks, header |-> header]

\* a file ezdxf.readfile cannot parse
BadFile == [kind |-> "bad", blocks |-> <<>>, header |-> HdrAbsent]

\* the title block as inserted from the template
TemplateBlock == <<TMarker, TX, TXX, TTitle, TDate0, TScale50, TAddress>>

\* a title block filled in by hand, the number of sheets before the number
FilledBlock == <<TMarkerInside, <<"5">>, <<"2">>, TPlan, TDate0, TScale50, <<"g", " ", "M">>>>

TemplateSheet == Dwg(<<<<TNote>>, TemplateBlock>>, HdrNum(1, 1))

FilledSheet == Dwg(<<FilledBlock>>, HdrAbsent)

\* a sheet whose title block holds one number and whose $PSVPSCALE is 0
LoneNumberSheet == Dwg(<<<<TMarker, <<"7">>, TScale50>>>>, HdrNum(0, 1))

A1 == <<"a", "/", "1", ".dxf">>
A2 == <<"a", "/", "2", ".dxf">>
A3 == <<"a", "/", "3", ".dxf">>
B1 == <<"b", "/", "1", ".dxf">>
C1 == <<"c", "/", "1", ".dxf">>
B4 == <<"b", "/", "4", ".dxf">>
A5 == <<"a", "/", "5", ".txt">>

\* the files of the general runs: three sheets, two drawings without a title
\* block whose base name is that of a sheet, a file ezdxf cannot parse, and a
\* file that is no .dxf file
RunDisk ==
    (A1 :> TemplateSheet) @@ (A2 :> FilledSheet) @@ (A3 :> LoneNumberSheet)
        @@ (B1 :> Dwg(<<<<TNote, TX>>>>, HdrAbsent))
        @@ (C1 :> Dwg(<<>>, HdrNum(2, 1)))
        @@ (B4 :> BadFile) @@ (A5 :> TemplateSheet)

IniDefault ==
    [loadable        |-> TRUE,
     dirname         |-> DEFAULT_OUTPUT_DIRNAME,
     patterns        |-> [name \in FieldNames |-> "default"],
     update_date     |-> TRUE,
     update_scale    |-> TRUE,
     update_address  |-> TRUE,
     date_value      |-> <<>>,
     scale_value     |-> <<>>,
     address_value   |-> <<>>,
     excel_enable    |-> TRUE,
     excel_filename  |-> <<"contents", ".xlsx">>,
     specs_names     |-> <<>>]

SeqsUpTo(S, n) == UNION {[1..k -> S] : k \in 0..n}

\* the state of the script as it starts, the inputs being given
Start(args, files, dirs, cfg) ==
    /\ argv = args
    /\ disk = files
    /\ fs_dirs = dirs
    /\ ini = cfg
    /\ clock = 0
    /\ pc = "config"
    /\ exit_status = -1
    /\ stdout = <<>>
    /\ conf = DefaultConf
    /\ dxf_files = <<>>
    /\ i = 0
    /\ our_sheets = <<>>
    /\ other_files = <<>>
    /\ dirname = <<>>
    /\ ext_cnt = 0
    /\ mkdir_calls = 0
    /\ output_dir = <<>>
    /\ out_files = <<>>
    /\ copied = 0
    /\ saved = 0
    /\ sheet_num = 0
    /\ new_date = <<>>
    /\ date_reads = 0
    /\ scale = NoScale
    /\ ws = <<>>
    /\ row_idx = 0
    /\ row_offset = 0
    /\ col_offset = 0

\* one run that goes through every step: two sheets, a file to copy, and an
\* output directory that exists already
InitBase ==
    Start(<<A2, B1, A1>>, RunDisk, {DEFAULT_OUTPUT_DIRNAME},
          [IniDefault EXCEPT !.specs_names = <<<<"s", "1">>, <<" ">>>>])

\* largest number of file names on the command line
MaxArgs == 3

RunInis ==
    {IniDefault,
     [IniDefault EXCEPT !.loadable = FALSE],
     [IniDefault EXCEPT !.update_date = FALSE, !.excel_enable = FALSE],
     [IniDefault EXCEPT !.date_value = <<"2", "0", "1", "9", "-", "0", "1", "-", "3", "1">>,
                        !.scale_value = <<"1", ":", "1", "0", "0">>,
                        !.excel_filename = <<" ">>,
                        !.address_value = <<" ", "g", " ", "K", "\n", "u", "\n">>]}

\* general runs: any command line over the files of RunDisk
InitRun ==
    \E args \in SeqsUpTo({A1, A2, A3, B1, C1, B4, A5}, MaxArgs) \ {<<>>} :
        \E cfg \in RunInis :
            Start(args, RunDisk, {}, cfg)

\* the n-th name __make_output_dir tries for the configured name d
TriedName(d, n) == IF n = 0 THEN d ELSE FormatDirname(SplitextRoot(d), n)

\* the n-th name of the sequence d, d.001, d.002, ...
SuffixedName(d, n) == IF n = 0 THEN d ELSE FormatDirname(d, n)

\* which of the names 0 .. MaxExtCnt-1 exist before the run
DirFills ==
    {0..(m - 1) : m \in {1, 2, 3, MaxExtCnt}}
        \cup {(0..(MaxExtCnt - 1)) \ {k} : k \in {2, MaxExtCnt - 1}}

DirNames == {DEFAULT_OUTPUT_DIRNAME, <<"out", ".v2">>}

\* runs that find directories of earlier runs
InitDir ==
    \E d \in DirNames : \E fill \in DirFills :
        \E dirs \in {{TriedName(d, n) : n \in fill}, {SuffixedName(d, n) : n \in fill}} :
            Start(<<A1>>, RunDisk, dirs, [IniDefault EXCEPT !.dirname = d])

Init == InitBase \/ InitRun \/ InitDir

Spec == Init /\ [][Next]_vars

\* largest number of texts in a title block beside the marker
MaxTexts == 2

FieldTexts == {TX, TXX, <<"2">>, <<"5">>, TTitle, TDate0, TScale50, TAddress}

\* the marker before or behind any texts the patterns match
TitleBlocks ==
    {<<TMarker>> \o t : t \in SeqsUpTo(FieldTexts, MaxTexts)}
        \cup {t \o <<TMarker>> : t \in SeqsUpTo(FieldTexts, MaxTexts)}

\* runs on two sheets, one from the template and one with any title block,
\* in either order on the command line and either order of their names
InitSheets ==
    \E tb \in TitleBlocks : \E args \in {<<A1, A2>>, <<A2, A1>>} :
        \E files \in {(A1 :> Dwg(<<tb>>, HdrAbsent)) @@ (A2 :> TemplateSheet),
                      (A2 :> Dwg(<<tb>>, HdrAbsent)) @@ (A1 :> TemplateSheet)} :
            Start(args, files, {}, IniDefault)

SpecSheets == (InitBase \/ InitSheets) /\ [][Next]_vars

\* largest numerator (in absolute value) and denominator of a $PSVPSCALE
MaxScaleNum == 6
MaxScaleDen == 4

Headers ==
    {HdrAbsent, HdrJunk}
        \cup {HdrNum(n, d) : n \in (0 - MaxScaleNum)..MaxScaleNum, d \in 1..MaxScaleDen}

\* runs on one sheet with any $PSVPSCALE
InitScale ==
    \E h \in Headers :
        \E cfg \in {IniDefault,
                    [IniDefault EXCEPT !.scale_value = <<"1", ":", "1", "0", "0">>],
                    [IniDefault EXCEPT !.update_scale = FALSE]} :
            Start(<<A1>>, (A1 :> Dwg(<<TemplateBlock>>, h)), {}, cfg)

SpecScale == (InitBase \/ InitScale) /\ [][Next]_vars

\* largest number of sheets and of names of the secondary list
MaxExcelSheets == 50
MaxSpecs == 2

SheetFile(n) == <<"s">> \o Str(n) \o <<".dxf">>

\* runs on sheets s1.dxf .. sN.dxf from the template
InitExcel ==
    \E n \in 1..MaxExcelSheets : \E m \in 0..MaxSpecs :
        Start([k \in 1..n |-> SheetFile(k)],
              [f \in {SheetFile(k) : k \in 1..n} |-> TemplateSheet],
              {},
              [IniDefault EXCEPT !.update_date = FALSE,
                                 !.specs_names = [k \in 1..m |-> <<"v">> \o Str(k)]])

SpecExcel == (InitBase \/ InitExcel) /\ [][Next]_vars

TAddressG == <<"g", " ", "M">>

FrameTexts == {TX, <<"5">>, TPlan, TDate0, TScale50, TAddressG, TNote}

\* the title blocks of the template and of a filled sheet, and the marker
\* before or behind any texts, matched by a pattern or by none
FrameBlocks ==
    {TemplateBlock, FilledBlock}
        \cup {<<TMarker>> \o t : t \in SeqsUpTo(FrameTexts, MaxTexts)}
        \cup {t \o <<TMarker>> : t \in SeqsUpTo(FrameTexts, MaxTexts)}

\* ini files with any update_* options, an address value that is absent,
\* blank or given, and the pattern of title or of date left alone or set to .
FrameInis ==
    {[IniDefault EXCEPT !.update_date = ud, !.update_scale = us,
                        !.update_address = ua, !.address_value = av,
                        !.patterns = [IniDefault.patterns EXCEPT ![name] = pat]] :
        ud \in BOOLEAN, us \in BOOLEAN, ua \in BOOLEAN,
        av \in {<<>>, <<" ">>, <<"g", " ", "K">>},
        name \in {"title", "date"}, pat \in Patterns}

\* runs on one sheet with any of these title blocks and ini files
InitFrame ==
    \E tb \in FrameBlocks : \E cfg \in FrameInis :
        Start(<<A1>>, (A1 :> Dwg(<<tb>>, HdrAbsent)), {}, cfg)

SpecFrame == (InitBase \/ InitFrame) /\ [][Next]_vars

---------------------------------------------------------------------------
(* Properties of a whole run                                               *)

LastPrinted == IF stdout = <<>> THEN "" ELSE stdout[Len(stdout)]

\* the names that existed before the run
DirsBefore == fs_dirs \ {output_dir}

HasMarkerBlock(c) ==
    \E b \in 1..Len(c.blocks) : \E t \in 1..Len(c.blocks[b]) :
        Contains(c.blocks[b][t], DEFAULT_TITLE_BLOCK_MARKER)

DxfArgs == {argv[k] : k \in {m \in 1..Len(argv) : argv[m][Len(argv[m])] = ".dxf"}}

ConfigFails == ~ini.loadable

NoDxfInput == DxfArgs = {}

ParseFails == \E f \in DxfArgs : disk[f].kind = "bad"

NoRecognizedSheet == \A f \in DxfArgs : ~(disk[f].kind = "dwg" /\ HasMarkerBlock(disk[f]))

DirCannotBeCreated == \A n \in 0..999 : TriedName(ini.dirname, n) \in DirsBefore

ScaleRaises ==
    /\ ini.update_scale
    /\ ini.scale_value = <<>>
    /\ \E f \in DxfArgs :
        /\ disk[f].kind = "dwg"
        /\ HasMarkerBlock(disk[f])
        /\ disk[f].header.kind = "num"
        /\ disk[f].header.n = 0

\* C2 (as claimed): every unrecognized file that has been copied is in the
\* output directory under its base name with the content of the input, from
\* the copy on to the end of the run.
C2_CopiedFilesStayIdentical ==
    \A j \in 1..Len(other_files) :
        j <= copied =>
            /\ Basename(other_files[j]) \in DOMAIN out_files
            /\ out_files[Basename(other_files[j])] = disk[other_files[j]]

\* C3 (as claimed): the directory created is the first name of d, d.001, ...,
\* d.999 that did not exist, no directory is created and '' is returned when
\* all of them exist, and os.mkdir is called at most 1000 times.
C3_FirstFreeSuffixedName ==
    /\ mkdir_calls <= 1000
    /\ pc = "copy" =>
        \E n \in 0..999 :
            /\ output_dir = SuffixedName(conf.dirname, n)
            /\ output_dir \notin DirsBefore
            /\ \A m \in 0..(n - 1) : SuffixedName(conf.dirname, m) \in DirsBefore
    /\ LastPrinted = "Error: Cannot create output directory." =>
        /\ output_dir = <<>>
        /\ \A n \in 0..999 : SuffixedName(conf.dirname, n) \in fs_dirs

\* C4 (as claimed): the run ends with status 1 when the configuration cannot
\* be loaded, no .dxf input remains, the output directory cannot be created
\* or no input is recognized, and in every other case with status 0 after
\* printing 'Done.'.
C4_ExitStatusOriginal ==
    pc = "exit" =>
        IF ConfigFails \/ NoDxfInput \/ DirCannotBeCreated \/ NoRecognizedSheet
        THEN exit_status = 1
        ELSE exit_status = 0 /\ LastPrinted = "Done."

\* C4 (amended): the run ends with status 1 in the four cases above and also
\* when an exception nothing catches ends it (an input ezdxf cannot parse, a
\* division by a $PSVPSCALE of 0 in get_dwg_scale); in every other case it
\* ends with status 0 after printing 'Done.'.
C4_ExitStatus ==
    pc = "exit" =>
        IF \/ ConfigFails \/ NoDxfInput \/ DirCannotBeCreated \/ NoRecognizedSheet
           \/ ParseFails \/ ScaleRaises
        THEN exit_status = 1 /\ LastPrinted # "Done."
        ELSE exit_status = 0 /\ LastPrinted = "Done."

\* a run that an unparsable input ends although a sheet was recognized and
\* the configuration was loaded
C4_Witness ==
    /\ pc = "exit"
    /\ exit_status = 1
    /\ LastPrinted = "Traceback"
    /\ ParseFails
    /\ our_sheets # <<>>
    /\ ~ConfigFails /\ ~NoRecognizedSheet /\ ~DirCannotBeCreated

AllClassified == Len(our_sheets) + Len(other_files) = Len(dxf_files)

XlsxWritten == \E k \in DOMAIN out_files : out_files[k].kind = "xlsx"

\* C5: the configuration is loaded before any input is classified, the
\* output directory is created only after every input is classified, files
\* are copied only into the created directory, a sheet is renumbered or saved
\* only after every unrecognized file is copied, and the index is written
\* only after every sheet is saved.
C5_StepOrder ==
    /\ Len(our_sheets) + Len(other_files) > 0 => conf = parse_config(ini)
    /\ mkdir_calls > 0 => AllClassified /\ conf = parse_config(ini)
    /\ copied > 0 => output_dir # <<>> /\ AllClassified
    /\ (sheet_num > 0 \/ saved > 0) =>
        /\ output_dir # <<>>
        /\ AllClassified
        /\ copied = Len(other_files)
    /\ (ws # <<>> \/ XlsxWritten) =>
        /\ saved = Len(our_sheets)
        /\ copied = Len(other_files)
    /\ LastPrinted = "Done." => saved = Len(our_sheets) /\ copied = Len(other_files)

\* a complete run that copied a file, saved two sheets and wrote the index
C5_Witness ==
    /\ pc = "exit"
    /\ exit_status = 0
    /\ copied > 0
    /\ saved > 1
    /\ XlsxWritten
    /\ fs_dirs # {output_dir}

\* C6: with update_date on and no date_value, the clock is read when the
\* first sheet is processed and never again, the date read then is written
\* to every sheet that has a date field, and a sheet processed earlier is
\* not changed later.
C6_DateReadOnce ==
    [][(sheet_num' = sheet_num + 1 /\ conf.update_date /\ conf.date_value = <<>>) =>
          /\ sheet_num = 0 => new_date' = Strftime(LocalTime(clock))
          /\ sheet_num > 0 => new_date' = new_date
          /\ our_sheets'[sheet_num'].tb_fields["date"] # None =>
                Getter(our_sheets'[sheet_num'], "date") = new_date'
          /\ \A k \in 1..sheet_num : our_sheets'[k] = our_sheets[k]]_vars

\* two sheets carry the date read for the first, and the clock has moved on
\* since
C6_Witness ==
    /\ pc = "exit"
    /\ exit_status = 0
    /\ ini.update_date /\ ini.date_value = <<>>
    /\ Len(our_sheets) >= 2
    /\ clock > 0
    /\ new_date = Strftime(LocalTime(0))
    /\ \A k \in 1..Len(our_sheets) :
        /\ our_sheets[k].tb_fields["date"] # None
        /\ Getter(our_sheets[k], "date") = new_date

---------------------------------------------------------------------------
(* Properties of the sheets                                                *)

\* enumerate_sheets has returned
EnumerateComplete ==
    /\ pc \in {"excel", "excel_loop", "done", "exit"}
    /\ our_sheets # <<>>
    /\ saved = Len(our_sheets)

\* the place of sheet k in ascending order of file name, sheets of one name
\* in the order of the command line
Rank(k) ==
    1 + Cardinality({j \in 1..Len(our_sheets) :
            \/ StrLess(our_sheets[j].filename, our_sheets[k].filename)
            \/ our_sheets[j].filename = our_sheets[k].filename /\ j < k})

Numbered(sheet, k, n) ==
    /\ Getter(sheet, "number") = Str(k)
    /\ Getter(sheet, "sheets") = Str(n)

\* 'number' and 'sheets' are bound, and to two text elements
TwoNumberFields(sheet) ==
    /\ sheet.tb_fields["number"] # None
    /\ sheet.tb_fields["sheets"] # None
    /\ sheet.tb_fields["number"] # sheet.tb_fields["sheets"]

C7_ScaleText ==
    (sheet_num >= 1 /\ conf.update_scale /\ conf.scale_value = <<>>) =>
        LET h == our_sheets[sheet_num].dwg.header
        IN  /\ scale.exc = NoException
            /\ (h.kind = "num" /\ h.n > h.d) =>
                  \E N \in 1..(MaxScaleNum + 1) : scale.text = Str(N) \o <<":", "1">>
            /\ (h.kind = "num" /\ h.n < h.d) =>
                  \E N \in 1..(MaxScaleDen + 1) : scale.text = <<"1", ":">> \o Str(N)
            /\ (h.kind # "num" \/ h.n = h.d) => scale.text = <<"1", ":", "1">>
            /\ h = HdrNum(2, 1) => scale.text = <<"2", ":", "1">>
            /\ h = HdrNum(1, 2) => scale.text = <<"1", ":", "2">>

\* the indexes of the texts of a title block that match a field's pattern
Matches(texts, name) == {k \in 0..(Len(texts) - 1) : ReSearch(name, texts[k + 1])}

\* C8: set_numbers exchanges the bindings of 'number' and 'sheets' exactly
\* when int(number text) > int(sheets text), a text that is no number or a
\* field that is unbound giving 0; no other binding changes; the sheet number
\* is then in the element 'number' is bound to and the total in the element
\* 'sheets' is bound to; and when the old number is below the old total, be
\* it as read through the bindings or as the only two numbers of the title
\* block stand, the lower ends as the sheet number and the higher as the
\* total.
C8_SetNumbers ==
    [][sheet_num' = sheet_num + 1 =>
        LET x   == our_sheets[sheet_num']
            y   == our_sheets'[sheet_num']
            xn  == x.tb_fields["number"]
            xs  == x.tb_fields["sheets"]
            yn  == y.tb_fields["number"]
            ys  == y.tb_fields["sheets"]
            old_number == IF xn # None /\ IntParses(qres(x)[xn + 1])
                          THEN IntValue(qres(x)[xn + 1]) ELSE 0
            old_sheets == IF xs # None /\ IntParses(qres(x)[xs + 1])
                          THEN IntValue(qres(x)[xs + 1]) ELSE 0
            nums == Matches(qres(x), "number") \cup Matches(qres(x), "sheets")
        IN  /\ IF old_number > old_sheets
               THEN yn = xs /\ ys = xn /\ xn # xs
               ELSE yn = xn /\ ys = xs
            /\ \A name \in FieldNames \ {"number", "sheets"} :
                  y.tb_fields[name] = x.tb_fields[name]
            /\ ys # None => qres(y)[ys + 1] = Str(Len(our_sheets))
            /\ (yn # None /\ yn # ys) => qres(y)[yn + 1] = Str(sheet_num')
            /\ (old_number < old_sheets /\ xn # None) =>
                  /\ qres(y)[xn + 1] = Str(sheet_num')
                  /\ qres(y)[xs + 1] = Str(Len(our_sheets))
            /\ \A a \in nums : \A b \in nums :
                  (/\ nums = {a, b}
                   /\ IntParses(qres(x)[a + 1]) /\ IntParses(qres(x)[b + 1])
                   /\ IntValue(qres(x)[a + 1]) < IntValue(qres(x)[b + 1])) =>
                      /\ qres(y)[a + 1] = Str(sheet_num')
                      /\ qres(y)[b + 1] = Str(Len(our_sheets))]_vars

\* a sheet whose total stood before its number: the bindings were exchanged
\* and each number is in the element that held it
C8_Witness ==
    /\ EnumerateComplete
    /\ \E k \in 1..Len(our_sheets) :
        LET f == our_sheets[k].filename
            was == disk[f].blocks[our_sheets[k].blk]
            n == our_sheets[k].tb_fields["number"]
            t == our_sheets[k].tb_fields["sheets"]
        IN  /\ n # None /\ t # None /\ n > t
            /\ IntOrZero(was[t + 1]) > IntOrZero(was[n + 1])
            /\ IntOrZero(was[n + 1]) > 0
            /\ Numbered(our_sheets[k], k, Len(our_sheets))

\* the sheets are as their constructor left them
NotYetEnumerated == pc \in {"recognize", "mkdir", "mkdir_retry", "copy", "enumerate"}

\* C9: a constructed sheet binds each field to at most one index: to none
\* exactly when no text matches the field's pattern, else to the smallest
\* matching index for number and address, the largest for sheets and title,
\* the earliest for date and scale; an unbound field reads as the empty text
\* and a write to it changes nothing.
C9_Bindings ==
    NotYetEnumerated =>
        \A k \in 1..Len(our_sheets) : \A name \in FieldNames :
            LET sheet == our_sheets[k]
                idx   == sheet.tb_fields[name]
                M     == Matches(qres(sheet), name)
            IN  /\ idx = None <=> M = {}
                /\ idx # None =>
                    /\ idx \in M
                    /\ name \in {"number", "address", "date", "scale"} =>
                          \A m \in M : idx <= m
                    /\ name \in {"sheets", "title"} => \A m \in M : idx >= m
                    /\ Getter(sheet, name) = qres(sheet)[idx + 1]
                /\ idx = None =>
                    /\ Getter(sheet, name) = <<>>
                    /\ Setter(sheet, name, <<"w">>) = sheet

\* a constructed sheet with two texts that match 'number' and 'sheets', bound
\* to the first and to the second, and with fields left unbound
C9_Witness ==
    /\ NotYetEnumerated
    /\ \E k \in 1..Len(our_sheets) :
        LET sheet == our_sheets[k]
        IN  /\ Cardinality(Matches(qres(sheet), "number")) = 2
            /\ Cardinality(Matches(qres(sheet), "sheets")) = 2
            /\ sheet.tb_fields["number"] = 0
            /\ sheet.tb_fields["sheets"] = 1
            /\ sheet.tb_fields["title"] = None
            /\ sheet.tb_fields["date"] = None

---------------------------------------------------------------------------
(* Properties of the index worksheet                                       *)

\* the cells of sheet k hold what was written for sheet k, in row 3+k of
\* columns 1-2 while 3+k <= 47 and in row k-41 of columns 4-5 after that
EntryInPlace(k) ==
    LET row == IF 3 + k <= 47 THEN 3 + k ELSE k - 41
        col == IF 3 + k <= 47 THEN 1 ELSE 4
    IN  /\ <<row, col>> \in DOMAIN ws
        /\ <<row, col + 1>> \in DOMAIN ws
        /\ ws[<<row, col>>] = Cell("number", k, Getter(our_sheets[k], "number"))
        /\ ws[<<row, col + 1>>].kind = "title"
        /\ ws[<<row, col + 1>>].sheet = k

\* C10: every sheet written so far has its two cells in its place, so that
\* no entry was written over another, and all of them are still there when
\* the secondary list has been written and the workbook saved.
C10_IndexLayout ==
    /\ pc = "excel_loop" => \A k \in 1..i : EntryInPlace(k)
    /\ (ws # <<>> /\ pc \in {"done", "exit"}) =>
          \A k \in 1..Len(our_sheets) : EntryInPlace(k)

\* a saved index of more than 47 sheets with a secondary list
C10_Witness ==
    /\ pc = "exit"
    /\ exit_status = 0
    /\ Len(our_sheets) > 47
    /\ conf.specs_names # <<>>
    /\ \E c \in DOMAIN ws : ws[c].kind = "specs_name"
    /\ \A k \in 1..Len(our_sheets) : EntryInPlace(k)

---------------------------------------------------------------------------
(* What enumerate_sheets leaves alone                                      *)

\* the texts of the title block of sheet k as they were read from its file
Was(k) == disk[our_sheets[k].filename].blocks[our_sheets[k].blk]

\* text element e of sheet k (counted from 0) has the text it was read with
Kept(k, e) == qres(our_sheets[k])[e + 1] = Was(k)[e + 1]

\* the field of sheet k is unbound, or the element bound to it is kept
FieldKept(k, name) ==
    LET idx == our_sheets[k].tb_fields[name]
    IN  idx # None => Kept(k, idx)

\* no field of sheet k is bound to element e
Unbound(k, e) == \A name \in FieldNames : our_sheets[k].tb_fields[name] # e

\* the fields the configuration has enumerate_sheets write
WrittenFields ==
    {"number", "sheets"}
        \cup (IF conf.update_date THEN {"date"} ELSE {})
        \cup (IF conf.update_scale THEN {"scale"} ELSE {})
        \cup (IF conf.update_address /\ conf.address_value # <<>>
              THEN {"address"} ELSE {})

\* C11 (as claimed): in every sheet enumerate_sheets has saved, the element
\* bound to 'title' and every unbound element keep their text, the date
\* field keeps its text unless update_date is on, the scale field unless
\* update_scale is on, and the address field unless update_address is on
\* and a non-empty address value is configured.
C11_FrameOriginal ==
    \A k \in 1..saved :
        /\ FieldKept(k, "title")
        /\ \A e \in 0..(Len(Was(k)) - 1) : Unbound(k, e) => Kept(k, e)
        /\ \A name \in {"date", "scale", "address"} :
              name \notin WrittenFields => FieldKept(k, name)

\* C11 (amended): in every sheet enumerate_sheets has saved, a text element
\* keeps its text unless it is bound to 'number' or 'sheets', to 'date' with
\* update_date on, to 'scale' with update_scale on, or to 'address' with
\* update_address on and a non-empty address value configured; so the
\* element of a field that is not written keeps its text whenever no
\* written field is bound to the same element.
C11_Frame ==
    \A k \in 1..saved : \A e \in 0..(Len(Was(k)) - 1) :
        (\A name \in WrittenFields : our_sheets[k].tb_fields[name] # e)
            => Kept(k, e)

\* a saved sheet of a finished run whose number was written while its title,
\* its marker, its date with update_date off and its address with
\* update_address on and a blank address value kept their text
C11_Witness ==
    /\ pc = "exit"
    /\ exit_status = 0
    /\ ~conf.update_date
    /\ conf.update_scale
    /\ conf.update_address
    /\ ini.address_value = <<" ">>
    /\ \E k \in 1..saved :
        LET f == our_sheets[k].tb_fields
        IN  /\ \A name \in FieldNames : f[name] # None
            /\ \A name \in FieldNames \ {"title"} : f[name] # f["title"]
            /\ ~Kept(k, f["number"])
            /\ ~Kept(k, f["scale"])
            /\ Kept(k, f["title"])
            /\ Kept(k, f["date"])
            /\ Kept(k, f["address"])
            /\ \E e \in 0..(Len(Was(k)) - 1) : Unbound(k, e) /\ Kept(k, e)

=============================================================================
